---- MODULE Spec2Model ----
(***************************************************************************)
(* bincode-core, src/traits/core_read.rs: the CoreRead trait (read,        *)
(* read_range, read_vec) and its implementation for &'a [u8].              *)
(*                                                                         *)
(* A slice &[u8] is a fat pointer (ptr, len) into a backing byte buffer    *)
(* that nobody writes while the borrow 'a lasts.  The slice source is a    *)
(* `&mut &'a [u8]`: reading re-seats the fat pointer on the unread suffix. *)
(* read_range and read are straight-line code and are one action each;     *)
(* read_vec is a loop around read and is modelled one iteration per step.  *)
(*                                                                         *)
(* usize is modelled UsizeBits wide.  Vec::with_capacity(len) panics with  *)
(* "capacity overflow" when len bytes exceed isize::MAX (documented in     *)
(* alloc::vec::Vec); the allocator is assumed to satisfy every smaller     *)
(* request.                                                                *)
(***************************************************************************)
EXTENDS Integers, Sequences, FiniteSets, TLC

\* ---------------------------------------------------------------- bounds
\* longest backing input
MaxLen == 3
\* byte values are 0..MaxByte
MaxByte == 1
\* width of usize in the model
UsizeBits == 3

RECURSIVE Pow2(_)
Pow2(k) == IF k = 0 THEN 1 ELSE 2 * Pow2(k - 1)

USIZE_MAX == Pow2(UsizeBits) - 1
ISIZE_MAX == Pow2(UsizeBits - 1) - 1
Usize == 0..USIZE_MAX
Byte == 0..MaxByte

Min(a, b) == IF a <= b THEN a ELSE b

\* A Rust slice never spans more than isize::MAX bytes.
InputLen == 0..Min(MaxLen, ISIZE_MAX)
Inputs == UNION {[1..n -> Byte] : n \in InputLen}

VARIABLES
    input,      \* the backing bytes the source borrows for 'a (immutable)
    self,       \* the source: the fat pointer [ptr, len] of the unread suffix
    pc,         \* "idle" | "read_vec" (inside the loop) | "panicked"
    call,       \* the call in progress or last made: [op, len, pre]
    vec,        \* read_vec's local Vec<u8>
    i,          \* read_vec's loop counter
    nreads,     \* reads issued by the read_vec in progress or last made
    result,     \* what the last call returned: Ok(v) | Err(e) | Panic(m)
    held,       \* a slice some read_range returned and the caller kept, with its bytes then
    readLog,    \* results of the caller's read() calls up to the first Err,
                \* kept while the caller has called nothing but read()
    onlyRead,   \* TRUE while the caller has called nothing but read()
    vecFailed   \* TRUE once a read_vec has returned Err

vars == <<input, self, pc, call, vec, i, nreads, result, held, readLog, onlyRead, vecFailed>>

\* ------------------------------------------------------- results, errors
EndOfSlice == "EndOfSlice"
Ok(v) == [tag |-> "Ok", val |-> v]
Err(e) == [tag |-> "Err", val |-> e]
Panic(m) == [tag |-> "Panic", val |-> m]
NoResult == [tag |-> "None", val |-> "none"]

\* ---------------------------------------------------------------- slices
\* the byte at 0-based address a of the backing buffer; -1 outside it
Mem(a) == IF a >= 0 /\ a < Len(input) THEN input[a + 1] ELSE -1

SliceLen(s) == s.len

\* the bytes a slice denotes
Bytes(s) == [k \in 1..s.len |-> Mem(s.ptr + k - 1)]

\* a slice lies inside the backing buffer
InBounds(s) == s.ptr >= 0 /\ s.len >= 0 /\ s.ptr + s.len <= Len(input)

\* &self[..n] for the whole view instead of the front part
RangeToWhole(s, n) == Ok([ptr |-> s.ptr, len |-> s.len])

\* &s[..n]; indexing past the end panics
RangeTo(s, n) ==
    IF n > s.len THEN Panic("range end index out of range")
    ELSE Ok([ptr |-> s.ptr, len |-> n])

\* the front part kept as the remaining view
RangeFromFront(s, n) == Ok([ptr |-> s.ptr, len |-> Min(n, s.len)])

\* &s[n..]; indexing past the end panics
RangeFrom(s, n) ==
    IF n > s.len THEN Panic("range start index out of range")
    ELSE Ok([ptr |-> s.ptr + n, len |-> s.len - n])

\* s[k]; indexing past the end panics
Index(s, k) ==
    IF k >= s.len THEN Panic("index out of bounds")
    ELSE Ok(Mem(s.ptr + k))

\* ------------------------------------------------- <&[u8]>::read_range
\* a failing read_range that eats what was left
read_range_eating(s, len) ==
    IF len > SliceLen(s)
    THEN [self |-> [ptr |-> s.ptr + s.len, len |-> 0], res |-> Err(EndOfSlice)]
    ELSE [self |-> [ptr |-> s.ptr + len, len |-> s.len - len],
          res |-> Ok([ptr |-> s.ptr, len |-> len])]

\* the length check off by one: len >= self.len()
read_range_ge(s, len) ==
    IF len >= SliceLen(s)
    THEN [self |-> s, res |-> Err(EndOfSlice)]
    ELSE [self |-> [ptr |-> s.ptr + len, len |-> s.len - len],
          res |-> Ok([ptr |-> s.ptr, len |-> len])]

\* no length check, unchecked slicing
read_range_unchecked(s, len) ==
    [self |-> [ptr |-> s.ptr + Min(len, s.len), len |-> s.len - Min(len, s.len)],
     res |-> Ok([ptr |-> s.ptr, len |-> len])]

\* read_range on the view s: the new view and the result
read_range(s, len) ==
    IF len > SliceLen(s)
    THEN [self |-> s, res |-> Err(EndOfSlice)]
    ELSE LET front == RangeTo(s, len)
             back == RangeFrom(s, len)
         IN  IF front.tag = "Panic" THEN [self |-> s, res |-> front]
             ELSE IF back.tag = "Panic" THEN [self |-> s, res |-> back]
             ELSE [self |-> back.val, res |-> Ok(front.val)]

\* ------------------------------------------------------- CoreRead::read
\* read built on read_range(2)
read_two(s) ==
    LET r == read_range(s, 2)
    IN  IF r.res.tag # "Ok" THEN r
        ELSE [self |-> r.self, res |-> Index(r.res.val, 0)]

\* read on the view s: `?` hands an Err back, buff[0] may panic
read(s) ==
    LET r == read_range(s, 1)
    IN  IF r.res.tag # "Ok" THEN r
        ELSE [self |-> r.self, res |-> Index(r.res.val, 0)]

\* --------------------------------------------------- CoreRead::read_vec
\* Vec::with_capacity(len) for u8
with_capacity(len) ==
    IF len > ISIZE_MAX THEN Panic("capacity overflow") ELSE Ok(<<>>)

\* push at the front
push_front(v, b) == <<b>> \o v

\* vec.push(b)
push(v, b) == Append(v, b)

\* ------------------------------------------------------------ the caller
\* the caller's record of its read() calls, kept up to the first Err
Logged(log, res) ==
    IF ~onlyRead THEN log
    ELSE IF Len(log) > 0 /\ log[Len(log)].tag # "Ok" THEN log
    ELSE IF Len(log) > Len(input) + 1 THEN log
    ELSE Append(log, res)

\* the caller holds no slice yet
NoSlice == [some |-> FALSE, s |-> [ptr |-> 0, len |-> 0], bytes |-> <<>>]

Init ==
    /\ input \in Inputs
    /\ self = [ptr |-> 0, len |-> Len(input)]
    /\ pc = "idle"
    /\ call = [op |-> "none", len |-> 0, pre |-> [ptr |-> 0, len |-> Len(input)]]
    /\ vec = <<>>
    /\ i = 0
    /\ nreads = 0
    /\ result = NoResult
    /\ held = NoSlice
    /\ readLog = <<>>
    /\ onlyRead = TRUE
    /\ vecFailed = FALSE

\* the caller calls read()
CallRead ==
    /\ pc = "idle"
    /\ LET r == read(self)
       IN  /\ self' = r.self
           /\ result' = r.res
           /\ pc' = IF r.res.tag = "Panic" THEN "panicked" ELSE "idle"
           /\ readLog' = Logged(readLog, r.res)
    /\ call' = [op |-> "read", len |-> 1, pre |-> self]
    /\ nreads' = 0
    /\ UNCHANGED <<input, vec, i, held, onlyRead, vecFailed>>

\* the caller calls read_range(len)
CallReadRange ==
    /\ pc = "idle"
    /\ \E len \in Usize :
         LET r == read_range(self, len)
         IN  /\ self' = r.self
             /\ result' = r.res
             /\ pc' = IF r.res.tag = "Panic" THEN "panicked" ELSE "idle"
             /\ \E keep \in BOOLEAN :
                  held' = IF r.res.tag = "Ok" /\ keep
                          THEN [some |-> TRUE, s |-> r.res.val, bytes |-> Bytes(r.res.val)]
                          ELSE held
             /\ call' = [op |-> "read_range", len |-> len, pre |-> self]
    /\ nreads' = 0
    /\ onlyRead' = FALSE
    /\ readLog' = <<>>
    /\ UNCHANGED <<input, vec, i, vecFailed>>

\* the caller calls read_vec(len): Vec::with_capacity, then the loop
CallReadVec ==
    /\ pc = "idle"
    /\ \E len \in Usize :
         LET v == with_capacity(len)
         IN  /\ call' = [op |-> "read_vec", len |-> len, pre |-> self]
             /\ IF v.tag = "Panic"
                THEN /\ pc' = "panicked"
                     /\ result' = v
                     /\ vec' = <<>>
                ELSE /\ pc' = "read_vec"
                     /\ result' = NoResult
                     /\ vec' = v.val
    /\ i' = 0
    /\ nreads' = 0
    /\ onlyRead' = FALSE
    /\ readLog' = <<>>
    /\ UNCHANGED <<input, self, held, vecFailed>>

\* an iteration that gives the bytes back when the read fails
ReadVecLoopRollback ==
    /\ pc = "read_vec"
    /\ i < call.len
    /\ LET r == read(self)
       IN  /\ nreads' = nreads + 1
           /\ IF r.res.tag = "Ok"
              THEN /\ self' = r.self
                   /\ vec' = push(vec, r.res.val)
                   /\ i' = i + 1
                   /\ UNCHANGED <<pc, result, vecFailed>>
              ELSE /\ self' = call.pre
                   /\ vec' = <<>>
                   /\ i' = 0
                   /\ result' = r.res
                   /\ pc' = IF r.res.tag = "Panic" THEN "panicked" ELSE "idle"
                   /\ vecFailed' = (vecFailed \/ r.res.tag = "Err")
    /\ UNCHANGED <<input, call, held, readLog, onlyRead>>

\* one iteration of `for _ in 0..len { vec.push(self.read()?) }`
ReadVecLoop ==
    /\ pc = "read_vec"
    /\ i < call.len
    /\ LET r == read(self)
       IN  /\ self' = r.self
           /\ nreads' = nreads + 1
           /\ IF r.res.tag = "Ok"
              THEN /\ vec' = push(vec, r.res.val)
                   /\ i' = i + 1
                   /\ UNCHANGED <<pc, result, vecFailed>>
              ELSE /\ vec' = <<>>
                   /\ i' = 0
                   /\ result' = r.res
                   /\ pc' = IF r.res.tag = "Panic" THEN "panicked" ELSE "idle"
                   /\ vecFailed' = (vecFailed \/ r.res.tag = "Err")
    /\ UNCHANGED <<input, call, held, readLog, onlyRead>>

\* the loop is over: Ok(vec)
ReadVecReturn ==
    /\ pc = "read_vec"
    /\ i >= call.len
    /\ result' = Ok(vec)
    /\ vec' = <<>>
    /\ i' = 0
    /\ pc' = "idle"
    /\ UNCHANGED <<input, self, call, nreads, held, readLog, onlyRead, vecFailed>>

Next ==
    \/ CallRead
    \/ CallReadRange
    \/ CallReadVec
    \/ ReadVecLoop
    \/ ReadVecReturn

Spec == Init /\ [][Next]_vars

\* ------------------------------------------------------------ properties
Take(q, n) == SubSeq(q, 1, n)
Drop(q, n) == SubSeq(q, n + 1, Len(q))

\* the view s with its first n bytes removed
Advanced(s, n) == [ptr |-> s.ptr + n, len |-> s.len - n]

\* the bytes that read() calls yield from the view s until the first failure
RECURSIVE Drain(_)
Drain(s) ==
    LET r == read(s)
    IN  IF r.res.tag = "Ok" THEN <<r.res.val>> \o Drain(r.self) ELSE <<>>

\* the last call was op and has come back (returned or panicked)
Finished(op) == call.op = op /\ pc # "read_vec"

\* C1: read_range(n) with n <= len(R) succeeds, returns a slice of exactly n
\* bytes equal to the first n bytes of R, and leaves R without its first n bytes.
C1_ReadRangeReturnsFront ==
    (Finished("read_range") /\ call.len <= call.pre.len) =>
        /\ result.tag = "Ok"
        /\ SliceLen(result.val) = call.len
        /\ Bytes(result.val) = Take(Bytes(call.pre), call.len)
        /\ self = Advanced(call.pre, call.len)
        /\ Bytes(self) = Drop(Bytes(call.pre), call.len)

C1_Witness ==
    /\ Finished("read_range")
    /\ result.tag = "Ok"
    /\ call.pre.ptr >= 1
    /\ call.len >= 1
    /\ call.len < call.pre.len

\* C2: read_range(n) with n > len(R) fails with EndOfSlice, returns no bytes and
\* consumes nothing: the view is still R and reading on yields all of R.
C2_ReadRangeFailsWithoutConsuming ==
    (Finished("read_range") /\ call.len > call.pre.len) =>
        /\ result.tag = "Err"
        /\ result.val = EndOfSlice
        /\ self = call.pre
        /\ Drain(self) = Bytes(call.pre)

C2_Witness ==
    /\ Finished("read_range")
    /\ call.len > call.pre.len
    /\ call.pre.ptr >= 1
    /\ call.pre.len >= 1
    /\ result.tag = "Err"

\* C3: calling read() from construction until it first fails succeeds exactly
\* Len(input) times, returns the input's bytes in order, and the call that
\* fails is call Len(input)+1, with EndOfSlice.
C3_ReadReproducesInput ==
    onlyRead =>
        /\ Len(readLog) <= Len(input) + 1
        /\ \A k \in 1..Len(readLog) :
             IF k <= Len(input)
             THEN readLog[k].tag = "Ok" /\ readLog[k].val = input[k]
             ELSE readLog[k].tag = "Err" /\ readLog[k].val = EndOfSlice

C3_Witness ==
    /\ onlyRead
    /\ Len(input) >= 2
    /\ input[1] # input[2]
    /\ Len(readLog) = Len(input) + 1
    /\ readLog[Len(readLog)].tag = "Err"

\* C4: read_range(0) succeeds in every state of the source, returns an empty
\* slice and leaves the remaining view as it was.
C4_ZeroLengthRead ==
    (Finished("read_range") /\ call.len = 0) =>
        /\ result.tag = "Ok"
        /\ SliceLen(result.val) = 0
        /\ Bytes(result.val) = <<>>
        /\ self = call.pre

C4_Witness ==
    /\ Finished("read_range")
    /\ call.len = 0
    /\ call.pre.len = 0
    /\ call.pre.ptr >= 1
    /\ result.tag = "Ok"

\* C5: read_vec(n) with n <= len(R) succeeds, returns exactly the first n bytes
\* of R in order and leaves R without its first n bytes: the bytes and the
\* advance of read_range(n).
C5_ReadVecReturnsFront ==
    (Finished("read_vec") /\ call.len <= call.pre.len) =>
        /\ result.tag = "Ok"
        /\ Len(result.val) = call.len
        /\ result.val = Take(Bytes(call.pre), call.len)
        /\ self = Advanced(call.pre, call.len)
        /\ LET rr == read_range(call.pre, call.len)
           IN  /\ rr.res.tag = "Ok"
               /\ result.val = Bytes(rr.res.val)
               /\ self = rr.self

C5_Witness ==
    /\ Finished("read_vec")
    /\ result.tag = "Ok"
    /\ call.len >= 2
    /\ call.len < call.pre.len
    /\ result.val[1] # result.val[2]

\* C6: every failure of read, read_range and read_vec comes back to the caller
\* as an Err value: no call panics, and a failed call hands out no partial data.
C6_FailuresAreReturned ==
    /\ pc # "panicked"
    /\ result.tag \in {"None", "Ok", "Err"}
    /\ (result.tag = "Err" => result.val = EndOfSlice /\ vec = <<>>)

\* C7: a slice returned by read_range is a sub-range of the backing input and
\* keeps denoting the bytes it denoted when it was returned, whatever is called
\* afterwards; no step writes the backing input.
C7_ReturnedSliceStaysValid ==
    [][ /\ input' = input
        /\ held'.some =>
             /\ InBounds(held'.s)
             /\ Bytes(held.s)' = held'.bytes
             /\ held'.bytes = SubSeq(input, held'.s.ptr + 1, held'.s.ptr + held'.s.len)
      ]_vars

C7_Witness ==
    /\ held.some
    /\ held.s.len >= 2
    /\ self.ptr > held.s.ptr + held.s.len
    /\ Finished("read_vec")
    /\ result.tag = "Err"

\* what C8 says of one state
CursorState ==
    /\ InBounds(self)
    /\ self.ptr + self.len = Len(input)
    /\ (Finished("read") /\ result.tag = "Ok" => self.len = call.pre.len - 1)
    /\ (Finished("read_range") /\ result.tag = "Ok" => self.len = call.pre.len - call.len)
    /\ (Finished("read_vec") /\ result.tag = "Ok" => self.len = call.pre.len - call.len)

\* C8: the remaining view is always a suffix of the input, never grows from one
\* state to the next, and a successful call shortens it by what it consumed.
C8_CursorOnlyMovesForward ==
    [][CursorState /\ CursorState' /\ self'.len <= self.len /\ self'.ptr >= self.ptr]_vars

C8_Witness ==
    /\ Finished("read")
    /\ result.tag = "Ok"
    /\ call.pre.ptr >= 1
    /\ self.len >= 1

\* C9: read_vec(n) with n > len(R) fails with the EndOfSlice of read number
\* len(R)+1, and the caller gets the error alone, the copied bytes dropped.
C9_ReadVecFailsWithFirstReadError ==
    (Finished("read_vec") /\ call.len > call.pre.len) =>
        /\ result.tag = "Err"
        /\ result.val = EndOfSlice
        /\ nreads = call.pre.len + 1
        /\ vec = <<>>

\* C10: a read_vec(n) with n > len(R) that has returned has returned Err and
\* left the view empty, not rolled back to R as a failed read_range(n) leaves
\* it; from then on every read and every read_range(m), m >= 1, fails with
\* EndOfSlice.
C10_FailedReadVecIsNotRolledBack ==
    /\ (call.op = "read_vec" /\ pc = "idle" /\ call.len > call.pre.len) =>
         /\ result.tag = "Err"
         /\ result.val = EndOfSlice
         /\ self = Advanced(call.pre, call.pre.len)
         /\ read_range(call.pre, call.len).res.tag = "Err"
         /\ read_range(call.pre, call.len).self = call.pre
    /\ vecFailed =>
         /\ self.len = 0
         /\ read(self).res.tag = "Err"
         /\ \A m \in 1..USIZE_MAX : read_range(self, m).res.tag = "Err"
         /\ (Finished("read") => result.tag = "Err" /\ result.val = EndOfSlice)
         /\ (Finished("read_range") /\ call.len >= 1 =>
                result.tag = "Err" /\ result.val = EndOfSlice)

C10_Witness ==
    /\ vecFailed
    /\ call.op = "read_vec"
    /\ pc = "idle"
    /\ call.len > call.pre.len
    /\ call.pre.len >= 2
    /\ result.tag = "Err"

====
